---- MODULE Spec2Model ----
(***************************************************************************)
(* Model of the research agent of agentic-researcher-api:                  *)
(*   - the five-node LangGraph workflow of ResearchAgent (decision_making, *)
(*     planning, agent, tools, judge) with its three routers,              *)
(*   - the checkpointer the graph is compiled with (one saved AgentState   *)
(*     per thread_id),                                                     *)
(*   - the two entry points (/query -> ainvoke, /stream ->                 *)
(*     message_generator) and the records message_generator yields,        *)
(*   - the retry loop of CoreAPIWrapper._get_search_response.              *)
(* The language model and the upstream services are the environment: what  *)
(* they return is chosen with \E in each action.                           *)
(***************************************************************************)
EXTENDS Integers, Sequences, FiniteSets, TLC

(***************************************************************************)
(* Bounds of the model.                                                    *)
(***************************************************************************)
\* runs submitted in one behaviour
MaxRuns == 2
\* ToolCall entries the model issues in one behaviour
MaxCalls == 2
\* messages held by the checkpointer, all threads together
MaxMsgs == 8

(***************************************************************************)
(* Program constants.                                                      *)
(***************************************************************************)
\* judge_node: "if num_feedback_requests >= 2"
JudgeCap == 2
\* _get_search_response: max_retries = 5
max_retries == 5

\* thread_id values a caller may submit
Threads == {"t1", "t2"}
\* user_input.message values
Inputs == {"q1"}
\* the two entry points of the API
Modes == {"query", "stream"}

\* self.tools = [search_papers, download_paper, ask_human_feedback]
tools == <<"search_papers", "download_paper", "ask_human_feedback">>
\* self.tools_dict = {tool.name: tool for tool in self.tools}
tools_dict == {tools[i] : i \in 1..Len(tools)}
\* capability names the model puts in a ToolCall here: a bound tool, and a
\* name the registry does not hold
RequestedNames == {"search_papers", "no_such_tool"}

END == "__end__"
Nodes == {"decision_making", "planning", "agent", "tools", "judge"}

VARIABLES
    store,       \* InMemorySaver: thread_id -> the AgentState last saved
    node,        \* position of the current run: "idle", a node, END, "error"
    state,       \* AgentState of the current run
    thread,      \* thread_id of the current run
    user_input,  \* the request body of the current run
    out,         \* what message_generator has yielded (stream mode)
    response,    \* what research_query has returned (query mode)
    trace,       \* nodes the current run has executed, in order
    log,         \* observations of the current run (model calls, tool calls)
    runs,        \* runs submitted so far
    window,      \* TRUE: only the last entry of each history is kept
    astream_events, \* replay: the events astream_events delivers, in order
    cursor,      \* replay: how many of them message_generator has consumed
    upstream,    \* paper search: the status the upstream gives to each request
    returned     \* paper search: what the call has returned, once it has

replayVars == <<astream_events, cursor>>
searchVars == <<upstream, returned>>

vars == <<store, node, state, thread, user_input, out, response, trace, log,
          runs, window, astream_events, cursor, upstream, returned>>

(***************************************************************************)
(* Messages.                                                               *)
(***************************************************************************)
HumanMessage(c) ==
    [type |-> "human", content |-> c, tool_calls |-> <<>>,
     tool_call_id |-> 0, name |-> "", by |-> "user"]
\* `by` is the node that produced the message (not a field of the program:
\* it lets a property tell the answer from a plan or a critique)
AIMessage(c, calls, by) ==
    [type |-> "ai", content |-> c, tool_calls |-> calls,
     tool_call_id |-> 0, name |-> "", by |-> by]
ToolMessage(c, nm, id) ==
    [type |-> "tool", content |-> c, tool_calls |-> <<>>,
     tool_call_id |-> id, name |-> nm, by |-> "tools"]

\* json.dumps of a tool result
json_dumps(r) == <<"json", r>>

\* AgentState with the defaults a first read sees (state.get(..., 0))
AgentState ==
    [messages |-> <<>>, requires_research |-> FALSE,
     num_feedback_requests |-> 0, is_good_answer |-> FALSE]

\* faulty variant of add_messages: the channel has no reducer, an update overwrites it
add_messages_overwrite(left, right) == right

\* the add_messages reducer of AgentState.messages: messages with fresh ids
\* are appended to the channel
add_messages(left, right) == left \o right

RECURSIVE CountCalls(_)
CountCalls(msgs) ==
    IF msgs = <<>> THEN 0
    ELSE Len(msgs[Len(msgs)].tool_calls) + CountCalls(SubSeq(msgs, 1, Len(msgs) - 1))

(***************************************************************************)
(* Routers.                                                                *)
(***************************************************************************)
router(s) == IF s.requires_research THEN "planning" ELSE "end"

\* faulty variant of should_continue: the ToolCalls of the last message are not
\* looked at
should_continue_always_end(s) == "end"

should_continue(s) ==
    IF s.messages[Len(s.messages)].tool_calls # <<>> THEN "continue" ELSE "end"

\* faulty variant of final_answer_router: the judge's branch always goes back to planning
final_answer_router_always_planning(s) == "planning"

final_answer_router(s) == IF s.is_good_answer THEN "end" ELSE "planning"

\* faulty variant of AfterNode: the tools node's edge goes to planning instead of
\* the agent
AfterNode_tools_to_planning(n, s) ==
    CASE n = "decision_making" ->
            IF router(s) = "planning" THEN "planning" ELSE END
      [] n = "planning" -> "agent"
      [] n = "tools" -> "planning"
      [] n = "agent" ->
            IF should_continue(s) = "continue" THEN "tools" ELSE "judge"
      [] n = "judge" ->
            IF final_answer_router(s) = "planning" THEN "planning" ELSE END

\* faulty variant of AfterNode: the "end" branch of should_continue is wired to END
\* instead of the judge
AfterNode_agent_ends(n, s) ==
    CASE n = "decision_making" ->
            IF router(s) = "planning" THEN "planning" ELSE END
      [] n = "planning" -> "agent"
      [] n = "tools" -> "agent"
      [] n = "agent" ->
            IF should_continue(s) = "continue" THEN "tools" ELSE END
      [] n = "judge" ->
            IF final_answer_router(s) = "planning" THEN "planning" ELSE END

\* _build_workflow: the edges of the graph
AfterNode(n, s) ==
    CASE n = "decision_making" ->
            IF router(s) = "planning" THEN "planning" ELSE END
      [] n = "planning" -> "agent"
      [] n = "tools" -> "agent"
      [] n = "agent" ->
            IF should_continue(s) = "continue" THEN "tools" ELSE "judge"
      [] n = "judge" ->
            IF final_answer_router(s) = "planning" THEN "planning" ELSE END

(***************************************************************************)
(* Applying a node's output (a partial update) to the state: messages go   *)
(* through the add_messages reducer, the other keys are overwritten.       *)
(***************************************************************************)
Apply(s, upd) ==
    [messages |->
        IF "messages" \in DOMAIN upd
        THEN add_messages(s.messages, upd.messages) ELSE s.messages,
     requires_research |->
        IF "requires_research" \in DOMAIN upd
        THEN upd.requires_research ELSE s.requires_research,
     num_feedback_requests |->
        IF "num_feedback_requests" \in DOMAIN upd
        THEN upd.num_feedback_requests ELSE s.num_feedback_requests,
     is_good_answer |->
        IF "is_good_answer" \in DOMAIN upd
        THEN upd.is_good_answer ELSE s.is_good_answer]

\* Python truthiness of an Optional[str]: None and "" are falsy
Truthy(x) == x # "None" /\ x # ""

(***************************************************************************)
(* The nodes, as functions from the state and what the environment         *)
(* returned to the node's output.                                          *)
(***************************************************************************)
\* values of DecisionMakingOutput.answer and JudgeOutput.feedback
OptionalText(t) == {"None", "", t}

\* faulty variant of decision_making_node: the answer is appended without the test
\* "if response.answer"
decision_making_node_always_appends(s, resp) ==
    [requires_research |-> resp.requires_research,
     messages |-> <<AIMessage(resp.answer, <<>>, "decision_making")>>]

\* faulty variant of decision_making_node: an answer is appended only when no
\* research is required
decision_making_node_answer_or_research(s, resp) ==
    IF Truthy(resp.answer) /\ ~resp.requires_research
    THEN [requires_research |-> resp.requires_research,
          messages |-> <<AIMessage(resp.answer, <<>>, "decision_making")>>]
    ELSE [requires_research |-> resp.requires_research]

decision_making_node(s, resp) ==
    IF Truthy(resp.answer)
    THEN [requires_research |-> resp.requires_research,
          messages |-> <<AIMessage(resp.answer, <<>>, "decision_making")>>]
    ELSE [requires_research |-> resp.requires_research]

planning_node(s, resp) == [messages |-> <<resp>>]

agent_node(s, resp) == [messages |-> <<resp>>]

\* the ToolCall list tools_node iterates over
TriggeringCalls(s) == s.messages[Len(s.messages)].tool_calls

\* index of the first ToolCall whose name tools_dict does not hold (the
\* lookup raises KeyError there), 0 when every name is known
FirstUnknown(calls) ==
    IF \E i \in 1..Len(calls) : calls[i].name \notin tools_dict
    THEN CHOOSE i \in 1..Len(calls) :
            /\ calls[i].name \notin tools_dict
            /\ \A j \in 1..(i - 1) : calls[j].name \in tools_dict
    ELSE 0

\* faulty variant of tools_node: the last ToolCall of the list gets no message
tools_node_skips_last(s, results) ==
    [messages |->
        [i \in 1..(Len(TriggeringCalls(s)) - 1) |->
            ToolMessage(json_dumps(results[i]),
                        TriggeringCalls(s)[i].name,
                        TriggeringCalls(s)[i].id)]]

\* faulty variant of tools_node: the results are tagged with the calls in reverse
tools_node_reversed(s, results) ==
    [messages |->
        [i \in 1..Len(TriggeringCalls(s)) |->
            ToolMessage(json_dumps(results[i]),
                        TriggeringCalls(s)[Len(TriggeringCalls(s)) + 1 - i].name,
                        TriggeringCalls(s)[Len(TriggeringCalls(s)) + 1 - i].id)]]

\* faulty variant of tools_node: the node returns inside the loop, after the first call
tools_node_first_only(s, results) ==
    [messages |->
        [i \in 1..(IF TriggeringCalls(s) = <<>> THEN 0 ELSE 1) |->
            ToolMessage(json_dumps(results[i]),
                        TriggeringCalls(s)[i].name,
                        TriggeringCalls(s)[i].id)]]

tools_node(s, results) ==
    [messages |->
        [i \in 1..Len(TriggeringCalls(s)) |->
            ToolMessage(json_dumps(results[i]),
                        TriggeringCalls(s)[i].name,
                        TriggeringCalls(s)[i].id)]]

\* faulty variant of judge_node: the counter is incremented on a rejection only
judge_node_counts_rejections(s, resp) ==
    IF s.num_feedback_requests >= JudgeCap
    THEN [is_good_answer |-> TRUE]
    ELSE LET n == IF resp.is_good_answer
                  THEN s.num_feedback_requests
                  ELSE s.num_feedback_requests + 1
         IN  IF Truthy(resp.feedback)
             THEN [is_good_answer |-> resp.is_good_answer,
                   num_feedback_requests |-> n,
                   messages |-> <<AIMessage(resp.feedback, <<>>, "judge")>>]
             ELSE [is_good_answer |-> resp.is_good_answer,
                   num_feedback_requests |-> n]

\* faulty variant of judge_node: the cap is tested with > instead of >=
judge_node_late_cap(s, resp) ==
    IF s.num_feedback_requests > JudgeCap
    THEN [is_good_answer |-> TRUE]
    ELSE IF Truthy(resp.feedback)
         THEN [is_good_answer |-> resp.is_good_answer,
               num_feedback_requests |-> s.num_feedback_requests + 1,
               messages |-> <<AIMessage(resp.feedback, <<>>, "judge")>>]
         ELSE [is_good_answer |-> resp.is_good_answer,
               num_feedback_requests |-> s.num_feedback_requests + 1]

judge_node(s, resp) ==
    IF s.num_feedback_requests >= JudgeCap
    THEN [is_good_answer |-> TRUE]
    ELSE IF Truthy(resp.feedback)
         THEN [is_good_answer |-> resp.is_good_answer,
               num_feedback_requests |-> s.num_feedback_requests + 1,
               messages |-> <<AIMessage(resp.feedback, <<>>, "judge")>>]
         ELSE [is_good_answer |-> resp.is_good_answer,
               num_feedback_requests |-> s.num_feedback_requests + 1]

\* judge_node invokes judge_llm only below the cap
JudgeInvokesModel(s) == ~(s.num_feedback_requests >= JudgeCap)

(***************************************************************************)
(* Capabilities.                                                           *)
(***************************************************************************)
\* response.status of the attempt-th request (attempt counts from 0), when
\* the upstream answers the requests of a call with the statuses `codes`
Status(attempt, codes) == codes[attempt + 1]

\* faulty variant of Attempt: goes on to the next request after a 2xx response
\* that is not the last one
RECURSIVE Attempt_ignores_2xx(_, _, _)
Attempt_ignores_2xx(attempt, codes, slept) ==
    IF /\ 200 <= Status(attempt, codes) /\ Status(attempt, codes) < 300
       /\ attempt = max_retries - 1
    THEN [raised |-> FALSE, requests |-> attempt + 1, slept |-> slept]
    ELSE IF attempt < max_retries - 1
         THEN Attempt_ignores_2xx(attempt + 1, codes,
                                  Append(slept, 2 ^ (attempt + 2)))
         ELSE [raised |-> TRUE, requests |-> attempt + 1, slept |-> slept]

\* one pass of "for attempt in range(max_retries)" and the passes after it:
\* requests counts the http.request calls, slept lists the time.sleep arguments
RECURSIVE Attempt(_, _, _)
Attempt(attempt, codes, slept) ==
    IF 200 <= Status(attempt, codes) /\ Status(attempt, codes) < 300
    THEN [raised |-> FALSE, requests |-> attempt + 1, slept |-> slept]
    ELSE IF attempt < max_retries - 1
         THEN Attempt(attempt + 1, codes, Append(slept, 2 ^ (attempt + 2)))
         ELSE [raised |-> TRUE, requests |-> attempt + 1, slept |-> slept]

\* CoreAPIWrapper._get_search_response: for attempt in range(max_retries)
_get_search_response(codes) == Attempt(0, codes, <<>>)

\* CoreAPIWrapper.search
search(codes, found) ==
    IF _get_search_response(codes).raised
    THEN [raised |-> TRUE, value |-> "Got non 2xx response from CORE API"]
    ELSE [raised |-> FALSE,
          value |-> IF found THEN "docs" ELSE "No relevant results were found"]

\* the statuses of an upstream that answers 500 `fails` times before it
\* answers 200
FailsThenOk(fails) == [i \in 1..max_retries |-> IF i <= fails THEN 500 ELSE 200]

\* what a capability invocation meets: the statuses the upstream answers with
\* (some 500s before a 200), and whether it has something to give (here it
\* always has)
ToolEnv == {FailsThenOk(fails) : fails \in 0..max_retries} \X {TRUE}

\* the search_papers capability: CoreAPIWrapper.search, with an exception
\* turned into a result that communicates the failure
search_papers(env) ==
    IF search(env[1], env[2]).raised
    THEN [failed |-> TRUE, result |-> <<"error", search(env[1], env[2]).value>>]
    ELSE [failed |-> FALSE, result |-> <<"ok", search(env[1], env[2]).value>>]

\* the other capabilities: a result, or a result that communicates the
\* failure; never an exception
capability(name, env) ==
    IF env[2]
    THEN [failed |-> FALSE, result |-> <<"ok", name>>]
    ELSE [failed |-> TRUE, result |-> <<"error", name>>]

\* self.tools_dict[tool_call["name"]].invoke(tool_call["args"])
invoke(name, env) ==
    IF name = "search_papers" THEN search_papers(env) ELSE capability(name, env)

(***************************************************************************)
(* message_generator: the records it yields for one event of               *)
(* astream_events.                                                         *)
(***************************************************************************)
\* an event of astream_events: `step` says that the tags hold "graph:step:N";
\* messages is data.output["messages"], chunk is data.chunk.content
Event(ev, nm, step, msgs, chunk) ==
    [event |-> ev, name |-> nm, tags |-> IF step THEN {"graph:step"} ELSE {},
     messages |-> msgs, chunk |-> chunk]

\* an on_custom_event event tagged custom_data_dispatch: messages holds its
\* data, the one entry of [event["data"]]
CustomEvent(nm, data) ==
    [event |-> "on_custom_event", name |-> nm, tags |-> {"custom_data_dispatch"},
     messages |-> <<data>>, chunk |-> ""]

\* langchain_to_chat_message: a ChatMessage for a human, ai or tool message,
\* an exception for anything else
langchain_to_chat_message(m) ==
    IF m.type \in {"human", "ai", "tool"}
    THEN [raised |-> FALSE,
          value |-> [type |-> m.type, content |-> m.content,
                     tool_calls |-> m.tool_calls,
                     tool_call_id |-> m.tool_call_id]]
    ELSE [raised |-> TRUE, value |-> "unsupported message type"]

\* remove_tool_calls on the str content of an OpenAI chunk
remove_tool_calls(content) == content

\* faulty variant of MessageRecords: the records of one event are yielded
\* last message first
RECURSIVE MessageRecords_reversed(_, _, _)
MessageRecords_reversed(new_messages, ui, nm) ==
    IF new_messages = <<>> THEN <<>>
    ELSE LET message == Head(new_messages)
             chat_message == langchain_to_chat_message(message)
             rest == MessageRecords_reversed(Tail(new_messages), ui, nm)
         IN  IF chat_message.raised
             THEN rest \o <<[event_name |-> nm, type |-> "error",
                             content |-> "Unexpected error"]>>
             ELSE IF chat_message.value.type = "human"
                     /\ chat_message.value.content = ui.message
                  THEN rest
                  ELSE rest \o <<[event_name |-> nm, type |-> "message",
                                  content |-> chat_message.value]>>

\* faulty variant of MessageRecords: the input message that LangGraph re-sends
\* is not dropped
RECURSIVE MessageRecords_keeps_echo(_, _, _)
MessageRecords_keeps_echo(new_messages, ui, nm) ==
    IF new_messages = <<>> THEN <<>>
    ELSE LET message == Head(new_messages)
             chat_message == langchain_to_chat_message(message)
             rest == MessageRecords_keeps_echo(Tail(new_messages), ui, nm)
         IN  IF chat_message.raised
             THEN <<[event_name |-> nm, type |-> "error",
                     content |-> "Unexpected error"]>> \o rest
             ELSE <<[event_name |-> nm, type |-> "message",
                     content |-> chat_message.value]>> \o rest

\* faulty variant of MessageRecords: the messages after one that cannot be
\* converted are not translated
RECURSIVE MessageRecords_stops_at_error(_, _, _)
MessageRecords_stops_at_error(new_messages, ui, nm) ==
    IF new_messages = <<>> THEN <<>>
    ELSE LET message == Head(new_messages)
             chat_message == langchain_to_chat_message(message)
             rest == MessageRecords_stops_at_error(Tail(new_messages), ui, nm)
         IN  IF chat_message.raised
             THEN <<[event_name |-> nm, type |-> "error",
                     content |-> "Unexpected error"]>>
             ELSE IF chat_message.value.type = "human"
                     /\ chat_message.value.content = ui.message
                  THEN rest
                  ELSE <<[event_name |-> nm, type |-> "message",
                          content |-> chat_message.value]>> \o rest

\* the loop "for message in new_messages" of message_generator
RECURSIVE MessageRecords(_, _, _)
MessageRecords(new_messages, ui, nm) ==
    IF new_messages = <<>> THEN <<>>
    ELSE LET message == Head(new_messages)
             chat_message == langchain_to_chat_message(message)
             rest == MessageRecords(Tail(new_messages), ui, nm)
         IN  IF chat_message.raised
             THEN <<[event_name |-> nm, type |-> "error",
                     content |-> "Unexpected error"]>> \o rest
             ELSE IF chat_message.value.type = "human"
                     /\ chat_message.value.content = ui.message
                  THEN rest
                  ELSE <<[event_name |-> nm, type |-> "message",
                          content |-> chat_message.value]>> \o rest

\* faulty variant of Translate: token records are yielded whatever
\* user_input.stream_tokens says
Translate_always_tokens(e, ui) ==
    LET new_messages ==
            IF e.event = "on_custom_event" /\ "custom_data_dispatch" \in e.tags
            THEN e.messages
            ELSE IF e.event = "on_chain_end" /\ "graph:step" \in e.tags
                 THEN e.messages
                 ELSE <<>>
        records == MessageRecords(new_messages, ui, e.name)
    IN  IF /\ e.event = "on_chat_model_stream"
           /\ "llama_guard" \notin e.tags
        THEN IF remove_tool_calls(e.chunk) # ""
             THEN records \o <<[event_name |-> e.name, type |-> "token",
                                content |-> remove_tool_calls(e.chunk)]>>
             ELSE records
        ELSE records \o <<[event_name |-> e.name, type |-> "info",
                           content |-> e.event]>>

\* one pass of the body of "async for event in agent.astream_events(...)"
Translate(e, ui) ==
    LET new_messages ==
            IF e.event = "on_custom_event" /\ "custom_data_dispatch" \in e.tags
            THEN e.messages
            ELSE IF e.event = "on_chain_end" /\ "graph:step" \in e.tags
                 THEN e.messages
                 ELSE <<>>
        records == MessageRecords(new_messages, ui, e.name)
    IN  IF /\ e.event = "on_chat_model_stream"
           /\ ui.stream_tokens
           /\ "llama_guard" \notin e.tags
        THEN IF remove_tool_calls(e.chunk) # ""
             THEN records \o <<[event_name |-> e.name, type |-> "token",
                                content |-> remove_tool_calls(e.chunk)]>>
             ELSE records
        ELSE records \o <<[event_name |-> e.name, type |-> "info",
                           content |-> e.event]>>

RECURSIVE TranslateAll(_, _)
TranslateAll(events, ui) ==
    IF events = <<>> THEN <<>>
    ELSE Translate(Head(events), ui) \o TranslateAll(Tail(events), ui)

\* the sentinel yielded after the event loop
DONE == [event_name |-> "", type |-> "done", content |-> "[DONE]"]

\* the events of one node execution: its start, the chunks of the model
\* invocation it makes (if any), and its end with the node's output
NodeEvents(n, upd, chunks) ==
    <<Event("on_chain_start", n, TRUE, <<>>, "")>>
    \o [i \in 1..Len(chunks) |->
            Event("on_chat_model_stream", "ChatOpenAI", FALSE, <<>>, chunks[i])]
    \o <<Event("on_chain_end", n, TRUE,
               IF "messages" \in DOMAIN upd THEN upd.messages ELSE <<>>, "")>>

\* the end of the graph's own chain, when the run reaches END
GraphEnd == <<Event("on_chain_end", "LangGraph", FALSE, <<>>, "")>>

(***************************************************************************)
(* The entry points.                                                       *)
(***************************************************************************)
\* parse_input: the graph's input and the thread_id of the request
parse_input(body) ==
    [input |-> [messages |-> <<HumanMessage(body.message)>>],
     thread_id |-> body.thread_id]

\* request bodies: /query takes a UserInput, /stream a StreamInput
Bodies ==
    { b \in [message : Inputs, thread_id : Threads, mode : Modes,
             stream_tokens : BOOLEAN] :
        b.mode = "query" => ~b.stream_tokens }

Streaming == user_input.mode = "stream"

RECURSIVE SumLen(_, _)
SumLen(st, ts) ==
    IF ts = {} THEN 0
    ELSE LET t == CHOOSE x \in ts : TRUE
         IN  Len(st[t].messages) + SumLen(st, ts \ {t})

\* the model stops where the saved histories would outgrow MaxMsgs
Fits(st) == window \/ SumLen(st, Threads) <= MaxMsgs

(***************************************************************************)
(* The windowed view, for the behaviours that never end.  The routers read *)
(* the last entry of messages and the three scalars of the state, and what *)
(* the language model answers is not tied to the history it is given: with *)
(* window = TRUE the model keeps the last entry of each history and the    *)
(* last entry of the run's observations, so that a run that goes round the *)
(* graph forever goes round finitely many states.                          *)
(***************************************************************************)
Keep(s) ==
    IF window /\ s.messages # <<>>
    THEN [s EXCEPT !.messages = <<s.messages[Len(s.messages)]>>]
    ELSE s

\* observations of a run, for the properties: judge_llm invocations,
\* capability invocations, executions of tools_node, the saved state the run
\* started from, whether the decision carried an answer, the
\* requires_research of the decision, and which invocations of the last
\* tools_node execution failed
NewLog(s) ==
    [judge_calls |-> 0, invocations |-> 0, tool_steps |-> 0,
     len0 |-> Len(s.messages), nfr0 |-> s.num_feedback_requests,
     answered |-> FALSE, requires_research |-> FALSE, failed |-> <<>>]

Init ==
    /\ store = [t \in Threads |-> AgentState]
    /\ node = "idle"
    /\ state = AgentState
    /\ thread = "t1"
    /\ user_input = [message |-> "q1", thread_id |-> "t1", mode |-> "query",
                     stream_tokens |-> FALSE]
    /\ out = <<>>
    /\ response = [status |-> 0]
    /\ trace = <<>>
    /\ log = NewLog(AgentState)
    /\ runs = 0
    /\ window = FALSE
    /\ astream_events = <<>> /\ cursor = 0
    /\ upstream = <<>> /\ returned = <<>>

\* research_query / stream: compiled_agent.ainvoke(**kwargs) or
\* astream_events(**kwargs) starts a run on the thread's saved state, with
\* the input applied to it
Submit(body) ==
    LET kwargs == parse_input(body)
        saved == store[kwargs.thread_id]
        s1 == Keep(Apply(saved, kwargs.input))
        events == <<Event("on_chain_start", "LangGraph", FALSE, <<>>, ""),
                    Event("on_chain_start", "__start__", TRUE, <<>>, ""),
                    Event("on_chain_end", "__start__", TRUE,
                          kwargs.input.messages, "")>>
    IN  /\ node \in {"idle", END, "error"}
        /\ runs < MaxRuns
        /\ runs' = runs + 1
        /\ user_input' = body
        /\ thread' = kwargs.thread_id
        /\ state' = s1
        /\ store' = [store EXCEPT ![kwargs.thread_id] = s1]
        /\ node' = "decision_making"
        /\ trace' = <<>>
        /\ log' = NewLog(saved)
        /\ out' = IF body.mode = "stream" THEN TranslateAll(events, body) ELSE <<>>
        /\ response' = [status |-> 0]
        /\ UNCHANGED <<window, replayVars, searchVars>>

\* a node returns `upd`: the graph applies it, saves the checkpoint and
\* follows the node's edge; the /stream generator translates the node's
\* events, the /query handler returns when the graph has ended
Finish(n, upd, chunks, log1) ==
    LET s1 == Keep(Apply(state, upd))
        nxt == AfterNode(n, s1)
        events == NodeEvents(n, upd, chunks)
                  \o (IF nxt = END THEN GraphEnd ELSE <<>>)
    IN  /\ Fits([store EXCEPT ![thread] = s1])
        /\ state' = s1
        /\ store' = [store EXCEPT ![thread] = s1]
        /\ node' = nxt
        /\ trace' = IF window THEN <<n>> ELSE Append(trace, n)
        /\ log' = IF window THEN log ELSE log1
        /\ out' = IF Streaming
                  THEN out \o TranslateAll(events, user_input)
                           \o (IF nxt = END THEN <<DONE>> ELSE <<>>)
                  ELSE out
        /\ response' =
              IF ~Streaming /\ nxt = END
              THEN [status |-> 200,
                    data |-> langchain_to_chat_message(
                                 s1.messages[Len(s1.messages)]).value]
              ELSE response
        /\ UNCHANGED <<thread, user_input, runs, window, replayVars, searchVars>>

\* a node raises: the exception leaves ainvoke / astream_events.
\* research_query turns it into an HTTP 500; message_generator has no
\* handler around its event loop, so the generator ends there
Raise(n, log1) ==
    /\ node' = "error"
    /\ trace' = IF window THEN <<n>> ELSE Append(trace, n)
    /\ log' = IF window THEN log ELSE log1
    /\ out' = IF Streaming
              THEN out \o Translate(Event("on_chain_start", n, TRUE, <<>>, ""),
                                    user_input)
              ELSE out
    /\ response' = IF ~Streaming THEN [status |-> 500] ELSE response
    /\ UNCHANGED <<state, store, thread, user_input, runs, window,
                   replayVars, searchVars>>

(***************************************************************************)
(* The node executions.                                                    *)
(***************************************************************************)
Decision ==
    /\ node = "decision_making"
    /\ \E rr \in BOOLEAN, answer \in OptionalText("answer") :
          Finish("decision_making",
                 decision_making_node(state,
                     [requires_research |-> rr, answer |-> answer]),
                 <<"">>, [log EXCEPT !.answered = Truthy(answer),
                                     !.requires_research = rr])

Planning ==
    /\ node = "planning"
    /\ Finish("planning",
              planning_node(state, AIMessage("plan", <<>>, "planning")),
              <<"plan">>, log)

\* ToolCall entries issued so far, all threads together
RECURSIVE SumCalls(_, _)
SumCalls(st, ts) ==
    IF ts = {} THEN 0
    ELSE LET t == CHOOSE x \in ts : TRUE
         IN  CountCalls(st[t].messages) + SumCalls(st, ts \ {t})

\* the ToolCall lists the model may answer with: ids are fresh
CallLists(s) ==
    UNION { { [i \in 1..n |-> [name |-> names[i],
                               id |-> CountCalls(s.messages) + i]] :
                names \in [1..n -> RequestedNames] } :
            n \in 0..(MaxCalls - SumCalls(store, Threads)) }


Agent ==
    /\ node = "agent"
    /\ \E calls \in CallLists(state) :
          /\ LET content == IF calls = <<>> THEN "final" ELSE ""
             IN  Finish("agent",
                        agent_node(state, AIMessage(content, calls, "agent")),
                        <<content>>, log)

Tools ==
    /\ node = "tools"
    /\ FirstUnknown(TriggeringCalls(state)) = 0
    /\ \E envs \in [1..Len(TriggeringCalls(state)) -> ToolEnv] :
          LET done == [i \in 1..Len(TriggeringCalls(state)) |->
                          invoke(TriggeringCalls(state)[i].name, envs[i])]
              results == [i \in 1..Len(done) |-> done[i].result]
          IN  Finish("tools", tools_node(state, results), <<>>,
                     [log EXCEPT !.tool_steps = @ + 1,
                                 !.invocations = @ + Len(done),
                                 !.failed = [i \in 1..Len(done) |->
                                                done[i].failed]])

\* self.tools_dict[tool_call["name"]] raises KeyError: the calls before it
\* have been invoked, no message is returned
ToolsKeyError ==
    /\ node = "tools"
    /\ FirstUnknown(TriggeringCalls(state)) # 0
    /\ Raise("tools",
             [log EXCEPT !.tool_steps = @ + 1,
                         !.invocations =
                             @ + FirstUnknown(TriggeringCalls(state)) - 1])

Judge ==
    /\ node = "judge"
    /\ IF JudgeInvokesModel(state)
       THEN \E good \in BOOLEAN, feedback \in OptionalText("feedback") :
               Finish("judge",
                      judge_node(state, [is_good_answer |-> good,
                                         feedback |-> feedback]),
                      <<"">>, [log EXCEPT !.judge_calls = @ + 1])
       ELSE Finish("judge",
                   judge_node(state, [is_good_answer |-> FALSE,
                                      feedback |-> "None"]),
                   <<>>, log)

\* a model invocation fails (transport, quota, malformed structured output)
ModelFails ==
    /\ node \in {"decision_making", "planning", "agent", "judge"}
    /\ node = "judge" => JudgeInvokesModel(state)
    /\ Raise(node, IF node = "judge"
                   THEN [log EXCEPT !.judge_calls = @ + 1] ELSE log)

Next ==
    \/ \E body \in Bodies : Submit(body)
    \/ Decision
    \/ Planning
    \/ Agent
    \/ Tools
    \/ ToolsKeyError
    \/ Judge
    \/ ModelFails

Spec == Init /\ [][Next]_vars

(***************************************************************************)
(* The runs of the query endpoint in the windowed view, with the graph's   *)
(* scheduling: a node that can run does run (every model and capability    *)
(* invocation returns or raises).                                          *)
(***************************************************************************)
InitLive ==
    /\ store = [t \in Threads |-> AgentState]
    /\ node = "idle"
    /\ state = AgentState
    /\ thread = "t1"
    /\ user_input = [message |-> "q1", thread_id |-> "t1", mode |-> "query",
                     stream_tokens |-> FALSE]
    /\ out = <<>>
    /\ response = [status |-> 0]
    /\ trace = <<>>
    /\ log = NewLog(AgentState)
    /\ runs = 0
    /\ window = TRUE
    /\ astream_events = <<>> /\ cursor = 0
    /\ upstream = <<>> /\ returned = <<>>

NextLive ==
    \/ \E body \in {b \in Bodies : b.mode = "query"} : Submit(body)
    \/ Decision
    \/ Planning
    \/ Agent
    \/ Tools
    \/ ToolsKeyError
    \/ Judge
    \/ ModelFails

Fairness ==
    /\ WF_vars(Decision)
    /\ WF_vars(Planning)
    /\ WF_vars(Agent)
    /\ WF_vars(Tools)
    /\ WF_vars(ToolsKeyError)
    /\ WF_vars(Judge)

SpecLive == InitLive /\ [][NextLive]_vars /\ Fairness

(***************************************************************************)
(* message_generator over a given sequence of events: the replay draws the *)
(* events astream_events delivers from a bounded set, which holds events   *)
(* the graph of this program does not produce (custom events, messages of  *)
(* a type that langchain_to_chat_message does not convert), and the loop   *)
(* of message_generator consumes them one at a time.                       *)
(***************************************************************************)
MaxEvents == 2
MaxNew == 2

SeqsUpTo(S, n) == UNION {[1..k -> S] : k \in 0..n}

\* SystemMessage(content=...): a message type that is neither human, ai nor tool
SystemMessage(c) ==
    [type |-> "system", content |-> c, tool_calls |-> <<>>,
     tool_call_id |-> 0, name |-> "", by |-> "prompt"]

\* the messages an event of the replay may carry: the caller's input, an ai
\* message, and a message that cannot be converted
ReplayMessages ==
    {HumanMessage("q1"), AIMessage("final", <<>>, "agent"), SystemMessage("sys")}

ReplayEvents ==
    {Event("on_chain_start", "agent", TRUE, <<>>, "")}
    \cup {Event("on_chain_end", "agent", TRUE, ms, "") :
             ms \in SeqsUpTo(ReplayMessages, MaxNew)}
    \cup {Event("on_chain_end", "LangGraph", FALSE,
                <<AIMessage("final", <<>>, "agent")>>, "")}
    \cup {CustomEvent("custom", data) : data \in ReplayMessages}
    \cup {Event("on_chat_model_stream", "ChatOpenAI", FALSE, <<>>, chunk) :
             chunk \in {"", "tok"}}

InitReplay ==
    /\ store = [t \in Threads |-> AgentState]
    /\ node = "replay"
    /\ state = AgentState
    /\ thread = "t1"
    /\ user_input \in {b \in Bodies : b.mode = "stream" /\ b.thread_id = "t1"}
    /\ out = <<>>
    /\ response = [status |-> 0]
    /\ trace = <<>>
    /\ log = NewLog(AgentState)
    /\ runs = 0
    /\ window = FALSE
    /\ astream_events \in SeqsUpTo(ReplayEvents, MaxEvents)
    /\ cursor = 0
    /\ upstream = <<>> /\ returned = <<>>

\* one pass of the body of the event loop
ConsumeEvent ==
    /\ node = "replay"
    /\ cursor < Len(astream_events)
    /\ cursor' = cursor + 1
    /\ out' = out \o Translate(astream_events[cursor + 1], user_input)
    /\ UNCHANGED <<store, node, state, thread, user_input, response, trace,
                   log, runs, window, astream_events, searchVars>>

\* astream_events is exhausted: the sentinel is yielded
EndOfEvents ==
    /\ node = "replay"
    /\ cursor = Len(astream_events)
    /\ node' = "replayed"
    /\ out' = out \o <<DONE>>
    /\ UNCHANGED <<store, state, thread, user_input, response, trace, log,
                   runs, window, replayVars, searchVars>>

NextReplay ==
    \/ ConsumeEvent
    \/ EndOfEvents

SpecReplay == InitReplay /\ [][NextReplay]_vars

(***************************************************************************)
(* One call of the search_papers capability against an upstream whose      *)
(* answers to the successive requests are drawn from StatusCodes.          *)
(***************************************************************************)
\* response.status values on both sides of "200 <= response.status < 300"
StatusCodes == {200, 299, 300, 404, 500}

InitSearch ==
    /\ store = [t \in Threads |-> AgentState]
    /\ node = "search"
    /\ state = AgentState
    /\ thread = "t1"
    /\ user_input = [message |-> "q1", thread_id |-> "t1", mode |-> "query",
                     stream_tokens |-> FALSE]
    /\ out = <<>>
    /\ response = [status |-> 0]
    /\ trace = <<>>
    /\ log = NewLog(AgentState)
    /\ runs = 0
    /\ window = FALSE
    /\ astream_events = <<>> /\ cursor = 0
    /\ upstream \in [1..max_retries -> StatusCodes]
    /\ returned = <<>>

\* search_papers is invoked: what _get_search_response did and what the
\* capability handed back
InvokeSearchPapers ==
    /\ node = "search"
    /\ node' = "searched"
    /\ returned' = <<[response |-> _get_search_response(upstream),
                      tool |-> search_papers(<<upstream, TRUE>>)]>>
    /\ UNCHANGED <<store, state, thread, user_input, out, response, trace,
                   log, runs, window, replayVars, upstream>>

NextSearch == InvokeSearchPapers

SpecSearch == InitSearch /\ [][NextSearch]_vars

(***************************************************************************)
(* Properties.                                                             *)
(***************************************************************************)
Last(seq) == seq[Len(seq)]

IsPrefix(a, b) == Len(a) <= Len(b) /\ SubSeq(b, 1, Len(a)) = a

\* how often the current run has entered node n
Visits(n) == Cardinality({i \in 1..Len(trace) : trace[i] = n})

\* what a step has appended to messages
Appended(old, new) == SubSeq(new.messages, Len(old.messages) + 1, Len(new.messages))

\* C1: the Judge stage is never entered with num_feedback_requests above 2,
\* and a Judge stage entered with num_feedback_requests = 2 does not invoke the
\* judge model, sets is_good_answer and sends the run to the terminal state.
C1_JudgeCap ==
    [][ /\ node' = "judge" => state'.num_feedback_requests <= 2
        /\ (node = "judge" /\ state.num_feedback_requests = 2)
              => /\ log'.judge_calls = log.judge_calls
                 /\ state'.is_good_answer
                 /\ state'.num_feedback_requests = 2
                 /\ node' = END ]_vars

\* a run that ended by forced acceptance after two rejections of its own
C1_Witness ==
    /\ node = END
    /\ log.nfr0 = 0
    /\ Visits("judge") = 3
    /\ log.judge_calls = 2
    /\ state.is_good_answer

\* C3: a Tool stage execution that returns appends one tool message per
\* ToolCall of the ai message that triggered it, the i-th carrying the
\* identifier and the capability name of the i-th ToolCall.
C3_ToolMessagesMatchCalls ==
    [][ (node = "tools" /\ node' # "tools" /\ node' # "error")
          => /\ node' = "agent"
             /\ Last(state.messages).type = "ai"
             /\ IsPrefix(state.messages, state'.messages)
             /\ Len(Appended(state, state')) = Len(TriggeringCalls(state))
             /\ \A i \in 1..Len(TriggeringCalls(state)) :
                   /\ Appended(state, state')[i].type = "tool"
                   /\ Appended(state, state')[i].tool_call_id
                         = TriggeringCalls(state)[i].id
                   /\ Appended(state, state')[i].name
                         = TriggeringCalls(state)[i].name ]_vars

\* the Tool stage has answered an ai message that carried two ToolCalls
C3_Witness ==
    /\ node = "agent"
    /\ trace # <<>> /\ Last(trace) = "tools"
    /\ Len(state.messages) >= 3
    /\ Len(state.messages[Len(state.messages) - 2].tool_calls) = 2
    /\ state.messages[Len(state.messages) - 1].type = "tool"
    /\ Last(state.messages).type = "tool"
    /\ state.messages[Len(state.messages) - 1].tool_call_id
          # Last(state.messages).tool_call_id

\* C6: a run is in the terminal state only after the Decision stage with
\* requires_research = false or after the Judge stage with is_good_answer = true.
C6_TerminalOnlyFromDecisionOrJudge ==
    node = END =>
        /\ trace # <<>>
        /\ \/ Last(trace) = "decision_making" /\ ~state.requires_research
           \/ Last(trace) = "judge" /\ state.is_good_answer

\* a run that went through planning and the agent and ended at the judge
C6_Witness ==
    /\ node = END
    /\ Visits("planning") >= 1 /\ Visits("agent") >= 1
    /\ Last(trace) = "judge"

\* C10: within a run, every step leaves the previous messages as a prefix of
\* the new messages.
C10_AppendOnly ==
    [][ (node \in Nodes) => IsPrefix(state.messages, state'.messages) ]_vars

\* a run that has appended several messages to a history it found
C10_Witness ==
    /\ node \in Nodes
    /\ log.len0 > 0
    /\ Len(state.messages) >= log.len0 + 3

\* what the current run has appended after its input message
RunAppended == SubSeq(state.messages, log.len0 + 2, Len(state.messages))

\* C2: every run starts with num_feedback_requests = 0, whatever an earlier
\* run left under the same thread_id, and the first judge evaluation of a run
\* invokes the judge model.
C2_FreshState ==
    /\ node = "decision_making" => state.num_feedback_requests = 0
    /\ Visits("judge") >= 1 => log.judge_calls >= 1

ErrorRecords(records) ==
    Cardinality({i \in 1..Len(records) : records[i].type = "error"})

\* C5: a stage-level error aborts the run and the stream of message_generator
\* then holds exactly one error record, as its last record.
C5_TerminalErrorRecord ==
    (node = "error" /\ Streaming)
        => /\ ErrorRecords(out) = 1
           /\ Last(out).type = "error"

HasAi(msgs) == \E i \in 1..Len(msgs) : msgs[i].type = "ai"

LastAi(msgs) ==
    msgs[CHOOSE i \in 1..Len(msgs) :
            /\ msgs[i].type = "ai"
            /\ \A j \in (i + 1)..Len(msgs) : msgs[j].type # "ai"]

\* C9: when a run started by the query endpoint is in the terminal state, the
\* last ai message of messages is the answer (the decision's answer or the Act
\* stage's final message) and it is what the endpoint has returned.
C9_CallerReceivesAnswer ==
    (node = END /\ ~Streaming)
        => /\ response.status = 200
           /\ HasAi(state.messages)
           /\ LastAi(state.messages).by \in {"decision_making", "agent"}
           /\ response.data
                 = langchain_to_chat_message(LastAi(state.messages)).value

\* a run is under way / is over
Running == node \in Nodes
Over == node \in {END, "error"}

\* C7 as stated: every run eventually reaches the terminal state (or, where an
\* invocation raises, is aborted).
C7_AlwaysTerminates == Running ~> Over

\* C7 (amended): a run that does not enter the Tool stage again and again
\* forever eventually reaches the terminal state or is aborted by an error:
\* judge rejections alone cannot keep it going.
C7_TerminatesUnlessToolLoop ==
    ([]<>(node = "tools")) \/ (Running ~> Over)

\* a run that the judge rejected twice has been accepted by the cap
C7_Witness ==
    /\ window
    /\ node = END
    /\ trace = <<"judge">>
    /\ state.num_feedback_requests = 2
    /\ state.is_good_answer

\* C11: when the first judge evaluation of a run returns is_good_answer =
\* true, the run is in the terminal state directly after that Judge stage, with
\* num_feedback_requests = 1.
C11_FirstVerdictGood ==
    [][ (/\ node = "judge"
         /\ Visits("judge") = 0
         /\ log'.judge_calls = log.judge_calls + 1
         /\ node' # "error"
         /\ state'.is_good_answer)
          => /\ node' = END
             /\ state'.num_feedback_requests = 1 ]_vars

\* the ai messages the Act stage has appended in the current run, in order
ActOutputs ==
    SelectSeq(RunAppended, LAMBDA msg : msg.type = "ai" /\ msg.by = "agent")

\* the current run required research, its first Act stage requested exactly
\* one tool call and its second Act stage none
OneToolCallThenNone ==
    /\ trace # <<>> /\ trace[1] = "decision_making"
    /\ Len(trace) >= 2
    /\ state.requires_research
    /\ Len(ActOutputs) >= 2
    /\ Len(ActOutputs[1].tool_calls) = 1
    /\ ActOutputs[2].tool_calls = <<>>

\* C12 as stated: a run that requires research, whose first Act stage requests
\* exactly one tool call and whose second Act stage requests none, has visited
\* Planning once, Act twice and Tool once when it is over.
C12_OneToolCallVisits ==
    (Over /\ OneToolCallThenNone)
        => /\ Visits("planning") = 1
           /\ Visits("agent") = 2
           /\ Visits("tools") = 1

\* C12 (amended): such a run has visited Planning once, Act twice and Tool
\* once when it is over at the Judge stage that follows its second Act stage;
\* a run whose judge rejected that answer has entered Planning again.
C12_OneToolCallVisitsUntilJudge ==
    (Over /\ OneToolCallThenNone)
        => IF Visits("judge") = 1 /\ Last(trace) = "judge"
           THEN /\ Visits("planning") = 1
                /\ Visits("agent") = 2
                /\ Visits("tools") = 1
           ELSE /\ Visits("judge") >= 1
                /\ Visits("planning") >= 2

\* a run with one tool call and then none that the judge accepted at once
C12_Witness ==
    /\ node = END
    /\ OneToolCallThenNone
    /\ log.nfr0 = 0
    /\ trace = <<"decision_making", "planning", "agent", "tools", "agent",
                 "judge">>

\* the sentinel records of a stream
Sentinels(records) ==
    Cardinality({i \in 1..Len(records) : records[i] = DONE})

\* C13: the stream of a run that is over ends with the end-of-stream sentinel:
\* the sentinel has been emitted exactly once and is the last record; while the
\* graph has not reached its terminal state no sentinel has been emitted.
C13_SentinelLast ==
    /\ (Streaming /\ Over) => (Sentinels(out) = 1 /\ Last(out) = DONE)
    /\ (Streaming /\ Running) => Sentinels(out) = 0

\* the contents of the message records of a stream, in stream order
MessageContents(records) ==
    LET msgs == SelectSeq(records, LAMBDA r : r.type = "message")
    IN  [i \in 1..Len(msgs) |-> msgs[i].content]

TokenRecords(records) == SelectSeq(records, LAMBDA r : r.type = "token")

\* C14: the message records of a stream are, in stream order, the messages the
\* stages of the run have appended, in the order the graph appended them,
\* whatever token and info records lie between them.
C14_StageOrder ==
    (Streaming /\ node # "idle")
        => MessageContents(out)
              = [i \in 1..Len(RunAppended) |->
                    langchain_to_chat_message(RunAppended[i]).value]

\* a stream with tokens that holds the plan, an ai message with two ToolCalls,
\* the two tool messages of one Tool stage and the final ai message
C14_Witness ==
    /\ Streaming
    /\ user_input.stream_tokens
    /\ node = "judge"
    /\ Len(MessageContents(out)) = 5
    /\ MessageContents(out)[3].type = "tool"
    /\ MessageContents(out)[4].type = "tool"
    /\ MessageContents(out)[3].tool_call_id # MessageContents(out)[4].tool_call_id
    /\ Len(TokenRecords(out)) >= 2

\* C15: the caller's input, which the graph holds as the first message of the
\* run, is never in a message record of the stream, and no other message of
\* the run is kept out of the stream.
C15_EchoSuppressed ==
    (Streaming /\ node # "idle")
        => /\ state.messages[log.len0 + 1] = HumanMessage(user_input.message)
           /\ \A i \in 1..Len(MessageContents(out)) :
                 ~(/\ MessageContents(out)[i].type = "human"
                   /\ MessageContents(out)[i].content = user_input.message)
           /\ Len(MessageContents(out)) = Len(RunAppended)

\* a stream of a run on a new thread that is over, with the messages of the
\* stages in it and the input as the first message of the history
C15_Witness ==
    /\ Streaming
    /\ node = END
    /\ log.len0 = 0
    /\ state.messages[1].type = "human"
    /\ state.messages[1].content = user_input.message
    /\ Len(MessageContents(out)) >= 2
    /\ Len(state.messages) = Len(MessageContents(out)) + 1

\* the messages an event hands to the loop "for message in new_messages"
Carried(e) ==
    IF \/ e.event = "on_custom_event" /\ "custom_data_dispatch" \in e.tags
       \/ e.event = "on_chain_end" /\ "graph:step" \in e.tags
    THEN e.messages
    ELSE <<>>

Convertible(m) == m.type \in {"human", "ai", "tool"}

\* C16: when the translator consumes an event that carries a message that
\* cannot be converted, it yields an error record in the place of that message,
\* still yields the records of the other messages of the event, in order, and
\* goes on to the next event; the stream ends, with the sentinel, only when
\* every event has been consumed.
C16_ErrorRecordAndContinue ==
    [][ /\ (node = "replay" /\ cursor < Len(astream_events))
            => LET e == astream_events[cursor + 1]
                   added == SubSeq(out', Len(out) + 1, Len(out'))
                   recs == SelectSeq(added,
                               LAMBDA r : r.type \in {"message", "error"})
                   kept == SelectSeq(Carried(e),
                               LAMBDA m : ~(/\ m.type = "human"
                                            /\ m.content = user_input.message))
               IN  /\ node' = "replay"
                   /\ cursor' = cursor + 1
                   /\ astream_events' = astream_events
                   /\ IsPrefix(out, out')
                   /\ Len(recs) = Len(kept)
                   /\ \A i \in 1..Len(kept) :
                         /\ recs[i].event_name = e.name
                         /\ IF Convertible(kept[i])
                            THEN /\ recs[i].type = "message"
                                 /\ recs[i].content.type = kept[i].type
                                 /\ recs[i].content.content = kept[i].content
                            ELSE /\ recs[i].type = "error"
                                 /\ recs[i].content = "Unexpected error"
        /\ node' = "replayed"
            => /\ cursor' = Len(astream_events)
               /\ Last(out') = DONE ]_vars

\* a replay that is over, whose first event carried a message that cannot be
\* converted and then an ai message, and whose second event carried an ai
\* message: one error record, then the two message records
C16_Witness ==
    /\ node = "replayed"
    /\ Len(astream_events) = 2
    /\ astream_events[1].event = "on_chain_end"
    /\ astream_events[1].messages
          = <<SystemMessage("sys"), AIMessage("final", <<>>, "agent")>>
    /\ astream_events[2].event = "on_custom_event"
    /\ astream_events[2].messages = <<AIMessage("final", <<>>, "agent")>>
    /\ out[1].type = "error"
    /\ ErrorRecords(out) = 1
    /\ Len(MessageContents(out)) = 2
    /\ Last(out) = DONE

\* requests of a call that get a 2xx status
TwoXX == {i \in 1..Len(upstream) : 200 <= upstream[i] /\ upstream[i] < 300}

C19_NoTokensWhenDisabled ==
    (Streaming /\ ~user_input.stream_tokens /\ node # "idle")
        => /\ TokenRecords(out) = <<>>
           /\ \A i \in 1..Len(RunAppended) :
                 \E j \in 1..Len(out) :
                    /\ out[j].type = "message"
                    /\ out[j].content
                          = langchain_to_chat_message(RunAppended[i]).value

\* a stream without tokens of a run whose planning and agent models have
\* generated text, with the message records of both stages
C19_Witness ==
    /\ Streaming
    /\ ~user_input.stream_tokens
    /\ node = "judge"
    /\ Visits("planning") = 1 /\ Visits("agent") = 1
    /\ Len(MessageContents(out)) = 2
    /\ TokenRecords(out) = <<>>

\* C20: a stage that returns hands the run to the stage the transition
\* relation names, as a function of the state it leaves: Decision to Planning
\* if requires_research, else to the terminal state; Planning to Act; Act to
\* Tool if the latest ai message carries a ToolCall, else to Judge; Tool to
\* Act; Judge to the terminal state if is_good_answer, else to Planning.  A
\* run that is not in a stage moves only by a new run entering Decision.
C20_TransitionRelation ==
    [][ /\ (node \in Nodes /\ node' # "error")
            => node' =
                 CASE node = "decision_making" ->
                         IF state'.requires_research THEN "planning" ELSE END
                   [] node = "planning" -> "agent"
                   [] node = "agent" ->
                         IF LastAi(state'.messages).tool_calls # <<>>
                         THEN "tools" ELSE "judge"
                   [] node = "tools" -> "agent"
                   [] node = "judge" ->
                         IF state'.is_good_answer THEN END ELSE "planning"
        /\ node \notin Nodes => node' \in {node, "decision_making"} ]_vars

\* a run that has taken every transition of the relation but the one from
\* Decision to the terminal state: through the Tool stage, rejected once by the
\* judge, then accepted
C20_Witness ==
    /\ node = END
    /\ Visits("tools") >= 1
    /\ Visits("planning") = 2
    /\ Visits("judge") = 2
    /\ log.judge_calls = 2

\* C21: the num_feedback_requests saved for a thread never decreases; a Judge
\* stage that invokes the model and returns increases the counter of its run
\* by exactly 1, whatever the verdict; the forced acceptance, a Judge stage
\* that is aborted, every other stage and the start of a run leave every
\* counter as it was.
C21_CounterOnlyByJudge ==
    [][ /\ \A t \in Threads :
              store'[t].num_feedback_requests >= store[t].num_feedback_requests
        /\ \A t \in Threads \ {thread} :
              node \in Nodes
                 => store'[t].num_feedback_requests
                       = store[t].num_feedback_requests
        /\ (node = "judge" /\ node' # "error"
              /\ log'.judge_calls = log.judge_calls + 1)
              => /\ state'.num_feedback_requests
                       = state.num_feedback_requests + 1
                 /\ store'[thread].num_feedback_requests
                       = store[thread].num_feedback_requests + 1
        /\ ~(node = "judge" /\ node' # "error"
               /\ log'.judge_calls = log.judge_calls + 1)
              => \A t \in Threads :
                    store'[t].num_feedback_requests
                       = store[t].num_feedback_requests
        /\ node \in Nodes
              => state'.num_feedback_requests
                    = store'[thread].num_feedback_requests ]_vars

\* a run whose judge accepted at its first evaluation (counter 1), on a thread
\* other than the one on which an earlier run left a counter of its own
C21_Witness ==
    /\ node = END
    /\ thread = "t2"
    /\ Last(trace) = "judge"
    /\ log.judge_calls = 1
    /\ state.is_good_answer
    /\ store["t2"].num_feedback_requests = 1
    /\ store["t1"].num_feedback_requests >= 1

\* C22: a Decision stage that returns appends the decision's answer as an ai
\* message whenever the decision carries one, whatever requires_research is,
\* and appends nothing otherwise; requires_research of the state is the
\* decision's value, and the run goes to Planning exactly when it is true.
C22_AnswerIndependentOfResearch ==
    [][ (node = "decision_making" /\ node' # "error")
          => /\ state'.requires_research = log'.requires_research
             /\ node' = IF log'.requires_research THEN "planning" ELSE END
             /\ IsPrefix(state.messages, state'.messages)
             /\ Len(Appended(state, state')) = IF log'.answered THEN 1 ELSE 0
             /\ log'.answered
                   => /\ Last(state'.messages).type = "ai"
                      /\ Last(state'.messages).content = "answer"
                      /\ Last(state'.messages).tool_calls = <<>> ]_vars

\* a decision that carried an answer and required research: the answer is the
\* last message and the run is in the Planning stage
C22_Witness ==
    /\ node = "planning"
    /\ trace = <<"decision_making">>
    /\ log.answered
    /\ log.requires_research
    /\ state.requires_research
    /\ Last(state.messages).type = "ai"
    /\ Last(state.messages).content = "answer"

\* C23: whenever the run is at the Judge stage, the last entry of messages is
\* an ai message with no ToolCall, and every ToolCall of an ai message the run
\* has appended is followed in messages by a tool message with its identifier.
C23_NoCallUnansweredAtJudge ==
    node = "judge"
        => /\ state.messages # <<>>
           /\ Last(state.messages).type = "ai"
           /\ Last(state.messages).tool_calls = <<>>
           /\ \A i \in (log.len0 + 1)..Len(state.messages) :
                 \A k \in 1..Len(state.messages[i].tool_calls) :
                    \E j \in (i + 1)..Len(state.messages) :
                       /\ state.messages[j].type = "tool"
                       /\ state.messages[j].tool_call_id
                             = state.messages[i].tool_calls[k].id

\* the Judge stage is entered in a run whose agent issued two ToolCalls in one
\* message, both answered by the Tool stage
C23_Witness ==
    /\ node = "judge"
    /\ Visits("tools") = 1
    /\ Visits("agent") = 2
    /\ CountCalls(RunAppended) = 2
    /\ Last(state.messages).type = "ai"

====
